---------------------------- MODULE Spec2Model ----------------------------
(***************************************************************************)
(* PeekingDuck: the instance-mask drawing node (draw/instance_mask.py),    *)
(* its colour store, its dispatch over the configured effects, and the     *)
(* runner loop that threads a shared data pool through the nodes.          *)
(*                                                                         *)
(* The specifications of this module:                                      *)
(*   Spec        the life of one instance-mask node: construction          *)
(*               (_validate_configs) followed by run calls;                *)
(*   SpecDraw    _draw_standard_masks as a function of its inputs;         *)
(*   SpecRunner  the runner loop over a pipeline of nodes                  *)
(*               (SpecRunnerFair adds the fairness of a running loop);     *)
(*   SpecEffect  _mask_apply_effect as a function of its inputs;           *)
(*   SpecRagged  _draw_standard_masks on inputs of unequal lengths;        *)
(*   SpecColor   the colour lookups of two nodes given the same labels;    *)
(*   SpecValidate  construction offered values around every limit;         *)
(*   SpecHeap    run calls with the arrays they read, allocate and write;  *)
(*   SpecCsv     the calls of CSVLogger.write over time.                   *)
(***************************************************************************)
EXTENDS Integers, Sequences, FiniteSets, TLC

VARIABLES
    status,                 \* "none" | "ready" | "failed": has a node been built
    config,                 \* the configuration handed to Node.__init__
    class_instance_colors,  \* self.class_instance_colors: label -> list of colours
    class_instance_counts,  \* self.class_instance_counts: label -> count (per run)
    calls,                  \* what the last run invoked, in order
    result,                 \* the outcome of the last run
    painted,                \* the instances painted by the last run, in order
    first_color,            \* history: <<label, ordinal>> -> colour first assigned
    nodes,                  \* runner.pipeline.nodes, in the configured order
    terminate,              \* runner.pipeline.terminate
    rstate,                 \* "Idle" | "Running" | "Terminated" | "Failed"
    pool,                   \* runner.pipeline.data: key -> value
    idx,                    \* the position in `nodes` of the next node to invoke
    inflight,               \* the calls of node.run that have not returned
    step_log,               \* history: the calls of the current step, in order
    error,                  \* the error the runner surfaced, "" when none
    draw_store,             \* the colour store between two compositor calls
    draw_in,                \* the arguments of the last compositor call
    draw_out,               \* what that call returned and left in the store
    fx_in,                  \* the arguments of the last effect-engine call
    fx_out,                 \* what that call returned
    lookup,                 \* history: the last call of _get_instance_color
    twin,                   \* the store and counts of a second node given the
                            \* same lookups
    memory,                 \* the arrays of the last run: the caller's before
                            \* the call, all of them after it, and the
                            \* references run returned
    logger                  \* a CSVLogger: logging_interval, last_write, the
                            \* times of the rows of its file, the last write

nodeVars == <<status, config, class_instance_colors, class_instance_counts,
              calls, result, painted, first_color>>

runnerVars == <<nodes, terminate, rstate, pool, idx, inflight, step_log, error>>

drawVars == <<draw_store, draw_in, draw_out>>

effectVars == <<fx_in, fx_out>>

colorVars == <<lookup, twin>>

heapVars == <<memory>>

csvVars == <<logger>>

-----------------------------------------------------------------------------
(* Bounds of the model *)

\* the largest number of detections in one frame
MaxInst == 2
\* the largest number of non-null entries of the effect mapping
MaxSet == 2
\* the number of pixels of a frame
NumPixels == 2
\* the largest number of nodes of a pipeline
MaxNodes == 2
\* the largest number of instances of one label looked up in one frame
MaxChain == 10
\* the largest number of calls of CSVLogger.write
MaxWrites == 3

-----------------------------------------------------------------------------
(* Python values: a configuration value is None, a bool, an int or a float. *)
(* A float is held in tenths (1.5 is 15); a bool as 0 / 1.                  *)

PyNone == [t |-> "none", v |-> 0]
PyBool(b) == [t |-> "bool", v |-> IF b THEN 1 ELSE 0]
PyInt(n) == [t |-> "int", v |-> n]
PyFloat(n) == [t |-> "float", v |-> n]

\* Python truthiness, as used by `if v:`
truthy(x) == x.t # "none" /\ x.v # 0

\* isinstance(var, var_type): bool is a subclass of int
isinstance(x, var_type) ==
    CASE var_type = "float" -> x.t = "float"
      [] var_type = "int" -> x.t \in {"int", "bool"}
      [] var_type = "bool" -> x.t = "bool"
      [] OTHER -> FALSE

\* the numeric value of x, in tenths
tenths(x) == IF x.t = "float" THEN x.v ELSE 10 * x.v

\* "+inf" as an upper limit, in tenths
Inf == 1000000

-----------------------------------------------------------------------------
(* The configuration of the node *)

\* the recognised effect names, in the order the code declares them
effects == <<"standard_mask", "contrast", "brightness", "gamma_correction",
             "blur", "mosaic">>

Range(s) == {s[i] : i \in DOMAIN s}

\* self.config["effect"][k]: the effect mapping is a dict, held as the
\* sequence of its entries [k, v] in insertion order (its keys are distinct)
Get(effect, k) == (CHOOSE e \in Range(effect) : e.k = k).v

\* check_valid_choice(key, choices): raises unless the value is a choice
check_valid_choice(value, choices) == value \in choices

\* lines 145-150: the number of entries whose value is truthy
RECURSIVE effects_count(_)
effects_count(effect) ==
    IF effect = <<>> THEN 0
    ELSE (IF truthy(Head(effect).v) THEN 1 ELSE 0) + effects_count(Tail(effect))

\* lines 146-148: every key is a recognised effect name
effect_keys_ok(effect) == \A e \in Range(effect) : e.k \in Range(effects)

\* a variant that accepts any number of counted effects above zero
effects_count_at_least_one(effect) == ~ (effects_count(effect) = 0)

\* lines 152-155: exactly one effect is counted
effects_count_ok(effect) ==
    ~ (effects_count(effect) = 0) /\ ~ (effects_count(effect) > 1)

\* _check_type: passes (TRUE) unless var is not None and not of var_type
_check_type(var, var_type) == ~ (var # PyNone /\ ~ isinstance(var, var_type))

\* a variant that checks the upper limit only
_check_number_range_upper(var, lower, upper) ==
    ~ (var # PyNone /\ ~ (tenths(var) <= upper))

\* _check_number_range: passes unless var is not None and outside
\* [lower, upper] (both in tenths)
_check_number_range(var, lower, upper) ==
    ~ (var # PyNone /\ ~ (lower <= tenths(var) /\ tenths(var) <= upper))

\* lines 159-171: the types and ranges of the parameters
params_ok(cfg) ==
    /\ _check_type(Get(cfg.effect, "contrast"), "float")
    /\ _check_number_range(Get(cfg.effect, "contrast"), 0, 30)
    /\ _check_type(Get(cfg.effect, "brightness"), "int")
    /\ _check_number_range(Get(cfg.effect, "brightness"), -1000, 1000)
    /\ _check_type(Get(cfg.effect, "gamma_correction"), "float")
    /\ _check_number_range(Get(cfg.effect, "gamma_correction"), 0, Inf)
    /\ _check_type(Get(cfg.effect, "blur"), "int")
    /\ _check_number_range(Get(cfg.effect, "blur"), 10, Inf)
    /\ _check_type(Get(cfg.effect, "mosaic"), "int")
    /\ _check_number_range(Get(cfg.effect, "mosaic"), 10, Inf)
    /\ _check_type(cfg.contours.show, "bool")
    /\ _check_type(cfg.contours.thickness, "int")
    /\ _check_number_range(cfg.contours.thickness, 10, Inf)

\* _validate_configs: TRUE when it returns, FALSE when it raises
_validate_configs(cfg) ==
    /\ check_valid_choice(cfg.instance_color_scheme, {"random", "hue_family"})
    /\ effect_keys_ok(cfg.effect)
    /\ effects_count_ok(cfg.effect)
    /\ check_valid_choice(cfg.effect_area, {"objects", "background"})
    /\ params_ok(cfg)

\* a variant of run_dispatch without the break: the iteration goes on
\* after a call
RECURSIVE run_dispatch_no_break(_, _)
run_dispatch_no_break(effect, i) ==
    IF i > Len(effect) THEN <<>>
    ELSE IF effect[i].v # PyNone
         THEN IF effect[i].k = "standard_mask" /\ truthy(effect[i].v)
              THEN <<[op |-> "_draw_standard_masks", effect |-> effect[i].k]>>
                   \o run_dispatch_no_break(effect, i + 1)
              ELSE IF effect[i].k # "standard_mask"
                   THEN <<[op |-> "_mask_apply_effect", effect |-> effect[i].k]>>
                        \o run_dispatch_no_break(effect, i + 1)
                   ELSE run_dispatch_no_break(effect, i + 1)
         ELSE run_dispatch_no_break(effect, i + 1)

\* Node.run, lines 121-137: the calls made while iterating the effect
\* mapping from entry i on; the iteration stops at the first call (break)
RECURSIVE run_dispatch(_, _)
run_dispatch(effect, i) ==
    IF i > Len(effect) THEN <<>>
    ELSE IF effect[i].v # PyNone
         THEN IF effect[i].k = "standard_mask" /\ truthy(effect[i].v)
              THEN <<[op |-> "_draw_standard_masks", effect |-> effect[i].k]>>
              ELSE IF effect[i].k # "standard_mask"
                   THEN <<[op |-> "_mask_apply_effect", effect |-> effect[i].k]>>
                   ELSE run_dispatch(effect, i + 1)
         ELSE run_dispatch(effect, i + 1)

-----------------------------------------------------------------------------
(* Colours.  A colour is a triple of channel values 0..255, <<b, g, r>> or  *)
(* <<h, s, v>>.                                                              *)

SATURATION_STEPS == 8
SATURATION_MINIMUM == 100
\* ALPHA, the blend weight of the mask colour, in percent
ALPHA == 50
DEFAULT_CLASS_COLOR == <<204, 204, 204>>
\* CLASS_COLORS: the preset colour of each known label
CLASS_COLORS == [l \in {"person"} |-> <<156, 223, 244>>]

Max3(a, b, c) == IF a >= b /\ a >= c THEN a ELSE IF b >= c THEN b ELSE c
Min3(a, b, c) == IF a <= b /\ a <= c THEN a ELSE IF b <= c THEN b ELSE c

\* _bgr_to_hsv: colorsys.rgb_to_hsv on the channels / 255, then
\* (int(h * 127), int(s * 255), int(v * 255)).
\* The quotients are taken in exact integer arithmetic.  Python computes them
\* in binary floating point, and where the exact quotient is an integer the
\* floating point one may fall just below it and truncate to one less.  On
\* the colours reached here (the chains of next_saturation from CLASS_COLORS
\* and DEFAULT_CLASS_COLOR, and RandomHsv) this happens for the saturation
\* of the colours in SaturationBelow and nowhere else.
SaturationBelow == {<<60, 60, 204>>}

_bgr_to_hsv(bgr) ==
    LET b == bgr[1]
        g == bgr[2]
        r == bgr[3]
        maxc == Max3(r, g, b)
        minc == Min3(r, g, b)
        rangec == maxc - minc
        \* h * 6 * rangec, before the "% 1.0"
        h6 == IF r = maxc THEN g - b
              ELSE IF g = maxc THEN 2 * rangec + (b - r)
              ELSE 4 * rangec + (r - g)
    IN  IF minc = maxc THEN <<0, 0, maxc>>
        ELSE <<(127 * (h6 % (6 * rangec))) \div (6 * rangec),
               (255 * rangec) \div maxc
                   - (IF bgr \in SaturationBelow THEN 1 ELSE 0),
               maxc>>

\* _hsv_to_bgr: colorsys.hsv_to_rgb(h / 127, s / 255, v / 255), each channel
\* int(x * 255), reversed to b, g, r
_hsv_to_bgr(hsv) ==
    LET h == hsv[1]
        s == hsv[2]
        v == hsv[3]
        i == (6 * h) \div 127
        \* f * 127
        f == 6 * h - 127 * i
        p == (v * (255 - s)) \div 255
        q == (v * (255 * 127 - s * f)) \div (255 * 127)
        t == (v * (255 * 127 - s * (127 - f))) \div (255 * 127)
        rgb == CASE i % 6 = 0 -> <<v, t, p>>
                 [] i % 6 = 1 -> <<q, v, p>>
                 [] i % 6 = 2 -> <<p, v, t>>
                 [] i % 6 = 3 -> <<p, q, v>>
                 [] i % 6 = 4 -> <<t, p, v>>
                 [] OTHER -> <<v, p, q>>
    IN  IF s = 0 THEN <<v, v, v>> ELSE <<rgb[3], rgb[2], rgb[1]>>

\* a variant without the adjustment to SATURATION_MINIMUM
next_saturation_unadjusted(sat) ==
    LET step2 == (2 * (256 - SATURATION_MINIMUM)) \div SATURATION_STEPS
    IN  ((2 * sat + step2) % (2 * 256)) \div 2

\* lines 304-307: the next saturation; the step (256 - 100) / 8 is 19.5, so
\* the sum is held in halves
next_saturation(sat) ==
    LET step2 == (2 * (256 - SATURATION_MINIMUM)) \div SATURATION_STEPS
        wrapped2 == (2 * sat + step2) % (2 * 256)
        saturation2 == IF wrapped2 < 2 * SATURATION_MINIMUM
                       THEN wrapped2 + 2 * SATURATION_MINIMUM
                       ELSE wrapped2
    IN  saturation2 \div 2

\* list[-1]
Last(list) == list[Len(list)]

\* dict.get(key, default)
DictGet(d, key, default) == IF key \in DOMAIN d THEN d[key] ELSE default

\* a variant whose later colours take the saturation drawn by randint
_get_new_instance_color_drawn(scheme, colors, instance_class, draw) ==
    IF scheme = "random" THEN _hsv_to_bgr(draw)
    ELSE IF DictGet(colors, instance_class, <<>>) = <<>>
         THEN DictGet(CLASS_COLORS, instance_class, DEFAULT_CLASS_COLOR)
         ELSE LET color == colors[instance_class][Len(colors[instance_class])]
                  color_hsv == _bgr_to_hsv(color)
              IN  _hsv_to_bgr(<<color_hsv[1], draw[2], color_hsv[3]>>)

\* a variant that gives every label the default colour first
_get_new_instance_color_default_first(scheme, colors, instance_class, draw) ==
    IF scheme = "random" THEN _hsv_to_bgr(draw)
    ELSE IF DictGet(colors, instance_class, <<>>) = <<>>
         THEN DEFAULT_CLASS_COLOR
         ELSE LET color == colors[instance_class][Len(colors[instance_class])]
                  color_hsv == _bgr_to_hsv(color)
              IN  _hsv_to_bgr(<<color_hsv[1], next_saturation(color_hsv[2]),
                                color_hsv[3]>>)

\* _get_new_instance_color: `colors` is self.class_instance_colors, `draw`
\* the (h, s, v) drawn by randint under scheme "random"
_get_new_instance_color(scheme, colors, instance_class, draw) ==
    IF scheme = "random" THEN _hsv_to_bgr(draw)
    ELSE IF DictGet(colors, instance_class, <<>>) = <<>>
         THEN DictGet(CLASS_COLORS, instance_class, DEFAULT_CLASS_COLOR)
         ELSE LET color == colors[instance_class][Len(colors[instance_class])]
                  color_hsv == _bgr_to_hsv(color)
              IN  _hsv_to_bgr(<<color_hsv[1], next_saturation(color_hsv[2]),
                                color_hsv[3]>>)

-----------------------------------------------------------------------------
(* The colour store *)

\* d[key] = value, adding the key when it is new
DictSet(d, key, value) ==
    [k \in DOMAIN d \cup {key} |-> IF k = key THEN value ELSE d[k]]

\* a variant with label-level stickiness: an instance that needs no new
\* colour gets the colour most recently stored for its label
_get_instance_color_label_level(scheme, st, instance_class, rnd) ==
    LET count == DictGet(st.counts, instance_class, 0) + 1
        counts1 == DictSet(st.counts, instance_class, count)
        colors1 == IF instance_class \in DOMAIN st.colors THEN st.colors
                   ELSE DictSet(st.colors, instance_class, <<>>)
    IN  IF count > Len(colors1[instance_class])
        THEN LET color == _get_new_instance_color(
                              scheme, colors1, instance_class, rnd[st.used + 1])
             IN  [colors |-> DictSet(colors1, instance_class,
                                     Append(colors1[instance_class], color)),
                  counts |-> counts1,
                  used |-> IF scheme = "random" THEN st.used + 1 ELSE st.used,
                  color |-> color,
                  ordinal |-> count]
        ELSE [colors |-> colors1,
              counts |-> counts1,
              used |-> st.used,
              color |-> colors1[instance_class][Len(colors1[instance_class])],
              ordinal |-> count]

\* a variant that keeps one colour per label: a new colour replaces the
\* stored list
_get_instance_color_overwrite(scheme, st, instance_class, rnd) ==
    LET count == DictGet(st.counts, instance_class, 0) + 1
        counts1 == DictSet(st.counts, instance_class, count)
        colors1 == IF instance_class \in DOMAIN st.colors THEN st.colors
                   ELSE DictSet(st.colors, instance_class, <<>>)
    IN  IF count > Len(colors1[instance_class])
        THEN LET color == _get_new_instance_color(
                              scheme, colors1, instance_class, rnd[st.used + 1])
             IN  [colors |-> DictSet(colors1, instance_class, <<color>>),
                  counts |-> counts1,
                  used |-> IF scheme = "random" THEN st.used + 1 ELSE st.used,
                  color |-> color,
                  ordinal |-> count]
        ELSE [colors |-> colors1,
              counts |-> counts1,
              used |-> st.used,
              color |-> colors1[instance_class][count],
              ordinal |-> count]

\* _get_instance_color, on st = [colors, counts, used, ...]: st.colors is
\* self.class_instance_colors, st.counts self.class_instance_counts, st.used
\* the number of random draws consumed so far from the stream rnd
_get_instance_color(scheme, st, instance_class, rnd) ==
    LET count == DictGet(st.counts, instance_class, 0) + 1
        counts1 == DictSet(st.counts, instance_class, count)
        \* setdefault(instance_class, [])
        colors1 == IF instance_class \in DOMAIN st.colors THEN st.colors
                   ELSE DictSet(st.colors, instance_class, <<>>)
    IN  IF count > Len(colors1[instance_class])
        THEN LET color == _get_new_instance_color(
                              scheme, colors1, instance_class, rnd[st.used + 1])
             IN  [colors |-> DictSet(colors1, instance_class,
                                     Append(colors1[instance_class], color)),
                  counts |-> counts1,
                  used |-> IF scheme = "random" THEN st.used + 1 ELSE st.used,
                  color |-> color,
                  ordinal |-> count]
        ELSE [colors |-> colors1,
              counts |-> counts1,
              used |-> st.used,
              color |-> colors1[instance_class][count],
              ordinal |-> count]

-----------------------------------------------------------------------------
(* The mask compositor.  A frame is a function from the pixels 1..NumPixels *)
(* to <<b, g, r>>; a mask a function from the pixels to {0, 1}.  Python's   *)
(* index i is i + 1 here.                                                   *)

Pixels == 1 .. NumPixels

\* lines 218-219: the indexes of bbox_scores in ascending order of score;
\* list.sort is stable.  Insert puts index i behind every entry whose score
\* is not larger
\* a variant that puts index i before the entries of equal score
RECURSIVE Insert_before_equal(_, _, _)
Insert_before_equal(sorted, i, bbox_scores) ==
    IF sorted = <<>> THEN <<i>>
    ELSE IF bbox_scores[Head(sorted)] < bbox_scores[i]
         THEN <<Head(sorted)>> \o Insert_before_equal(Tail(sorted), i, bbox_scores)
         ELSE <<i>> \o sorted

RECURSIVE Insert(_, _, _)
Insert(sorted, i, bbox_scores) ==
    IF sorted = <<>> THEN <<i>>
    ELSE IF bbox_scores[Head(sorted)] <= bbox_scores[i]
         THEN <<Head(sorted)>> \o Insert(Tail(sorted), i, bbox_scores)
         ELSE <<i>> \o sorted

RECURSIVE sort_prefix(_, _)
sort_prefix(bbox_scores, n) ==
    IF n = 0 THEN <<>>
    ELSE Insert(sort_prefix(bbox_scores, n - 1), n, bbox_scores)

scores_with_indexes(bbox_scores) == sort_prefix(bbox_scores, Len(bbox_scores))

\* cv2.addWeighted(a, ALPHA, b, 1 - ALPHA, 0) on one channel: the weighted
\* sum rounded to the nearest integer, halves to the even one
addWeighted(a, b) ==
    LET sum == a * ALPHA + b * (100 - ALPHA)
        low == sum \div 100
        rem == sum % 100
    IN  IF rem < 50 THEN low
        ELSE IF rem > 50 THEN low + 1
        ELSE IF low % 2 = 0 THEN low ELSE low + 1

\* lines 224-238 at one pixel covered by the mask: the mask colour blended
\* with the pixel of the original image
blend_pixel(color, pixel) ==
    <<addWeighted(color[1], pixel[1]), addWeighted(color[2], pixel[2]),
      addWeighted(color[3], pixel[3])>>

\* a variant that blends the colour with the running output
paint_mask_running(ret_image, image, mask, color) ==
    [p \in Pixels |-> IF mask[p] # 0 THEN blend_pixel(color, ret_image[p])
                      ELSE ret_image[p]]

\* lines 224-238: ret_image with the masked area replaced by the blend of
\* the colour and the original image
paint_mask(ret_image, image, mask, color) ==
    [p \in Pixels |-> IF mask[p] # 0 THEN blend_pixel(color, image[p])
                      ELSE ret_image[p]]

\* lines 222-243: one iteration of the loop, for the detection `index`.  It
\* ends with status "error" when an index is out of range (IndexError) or
\* when the contour call is made (TypeError: _draw_contours_single_mask
\* takes three arguments and is given four)
draw_step(cfg, st, index, image, masks, bbox_labels, rnd) ==
    IF index > Len(bbox_labels) THEN [st EXCEPT !.status = "error"]
    ELSE LET got == _get_instance_color(cfg.instance_color_scheme, st,
                                        bbox_labels[index], rnd)
             st1 == [st EXCEPT !.colors = got.colors,
                               !.counts = got.counts,
                               !.used = got.used,
                               !.painted = Append(st.painted,
                                   [label |-> bbox_labels[index],
                                    index |-> index,
                                    ordinal |-> got.ordinal,
                                    color |-> got.color])]
         IN  IF index > Len(masks) THEN [st1 EXCEPT !.status = "error"]
             ELSE IF truthy(cfg.contours.show)
                  THEN [st1 EXCEPT !.status = "error"]
                  ELSE [st1 EXCEPT !.img = paint_mask(st.img, image,
                                               masks[index], got.color)]

\* the value of the one element of a singleton set
The(S) == CHOOSE x \in S : TRUE

\* lines 221-243: the loop over the sorted indexes, from position k on
RECURSIVE draw_loop(_, _, _, _, _, _, _, _)
draw_loop(cfg, st, order, k, image, masks, bbox_labels, rnd) ==
    IF k > Len(order) THEN st
    ELSE The({IF s.status = "error" THEN s
              ELSE draw_loop(cfg, s, order, k + 1, image, masks, bbox_labels, rnd) :
              s \in {draw_step(cfg, st, order[k], image, masks, bbox_labels, rnd)}})

\* a variant that paints on the blank canvas instead of the image
_draw_standard_masks_on_canvas(cfg, colors, image, masks, bbox_labels, bbox_scores, rnd) ==
    draw_loop(cfg,
              [status |-> "ok", img |-> [p \in Pixels |-> <<0, 0, 0>>],
               colors |-> colors, counts |-> <<>>, used |-> 0, painted |-> <<>>],
              scores_with_indexes(bbox_scores), 1, image, masks, bbox_labels,
              rnd)

\* _draw_standard_masks: the outcome [status, img, colors, counts, painted,
\* used] of a call made with the store `colors`
_draw_standard_masks(cfg, colors, image, masks, bbox_labels, bbox_scores, rnd) ==
    draw_loop(cfg,
              [status |-> "ok", img |-> image, colors |-> colors,
               counts |-> <<>>, used |-> 0, painted |-> <<>>],
              scores_with_indexes(bbox_scores), 1, image, masks, bbox_labels,
              rnd)

-----------------------------------------------------------------------------
(* The effect engine *)

CONTOUR_COLOR == <<0, 0, 0>>

\* a variant that keeps the last mask only
combined_masks_last(masks) ==
    [p \in Pixels |-> IF masks # <<>> /\ masks[Len(masks)][p] # 0 THEN 1 ELSE 0]

\* lines 352-355: the union of the masks
combined_masks(masks) ==
    [p \in Pixels |-> IF \E i \in DOMAIN masks : masks[i][p] # 0 THEN 1 ELSE 0]

\* _draw_contours_all_masks: in a frame one pixel high every pixel of a mask
\* lies on its contour and is stroked in CONTOUR_COLOR
_draw_contours_all_masks(masks, image) ==
    [p \in Pixels |-> IF \E i \in DOMAIN masks : masks[i][p] # 0
                      THEN CONTOUR_COLOR ELSE image[p]]

\* cv2.convertScaleAbs on one channel: |x * alpha + beta| rounded to the
\* nearest integer (halves to the even one) and saturated at 255; alpha is
\* held in tenths
convertScaleAbs(x, alpha, beta) ==
    LET scaled == x * alpha + 10 * beta
        abs == IF scaled < 0 THEN - scaled ELSE scaled
        low == abs \div 10
        rem == abs % 10
        rounded == IF rem < 5 THEN low
                   ELSE IF rem > 5 THEN low + 1
                   ELSE IF low % 2 = 0 THEN low ELSE low + 1
    IN  IF rounded > 255 THEN 255 ELSE rounded

\* _adjust_contrast_brightness: contrast scales every channel, brightness
\* shifts it
_adjust_contrast_brightness(cfg, image, effect) ==
    LET alpha == IF effect = "contrast" THEN tenths(Get(cfg.effect, "contrast"))
                 ELSE 10
        beta == IF effect = "contrast" THEN 0
                ELSE Get(cfg.effect, "brightness").v
    IN  [p \in Pixels |-> [c \in 1 .. 3 |->
                              convertScaleAbs(image[p][c], alpha, beta)]]

\* lines 362-372: the transformed image.  contrast and brightness are
\* computed; the results of the gamma table (pow), cv2.blur and the two
\* cv2.resize of the mosaic depend on the library and are the frame `lib`
effect_transform(cfg, image, effect, lib) ==
    IF effect \in {"contrast", "brightness"}
    THEN _adjust_contrast_brightness(cfg, image, effect)
    ELSE lib

\* _mask_apply_effect, lines 357-387; full_image_with_effect is the image
\* the cv2 transform of the chosen effect returns
_mask_apply_effect(cfg, image, masks, full_image_with_effect) ==
    LET combined == combined_masks(masks)
        effect_area == IF cfg.effect_area = "objects" THEN combined
                       ELSE [p \in Pixels |-> 1 - combined[p]]
        ret_image == [p \in Pixels |->
                         IF effect_area[p] # 0 THEN full_image_with_effect[p]
                         ELSE image[p]]
    IN  IF truthy(cfg.contours.show)
        THEN _draw_contours_all_masks(masks, ret_image)
        ELSE ret_image

-----------------------------------------------------------------------------
(* The arrays of a run.  `heap` maps a name to the contents of the array    *)
(* it names: the caller's four (img, masks, bbox_labels, bbox_scores) and   *)
(* the arrays the call allocates.  A variable of the code that is bound to  *)
(* an array is held as the name of that array.                              *)

\* the heap at the entry of run
entry_heap(image, masks, bbox_labels, bbox_scores) ==
    [img |-> image, masks |-> masks, bbox_labels |-> bbox_labels,
     bbox_scores |-> bbox_scores, full_sized_canvas |-> <<>>,
     scores_with_indexes |-> <<>>, combined_masks |-> <<>>,
     full_image_with_effect |-> <<>>, new_image |-> <<>>]

\* the array `ref` names receives `value`: an allocation when the name is
\* new, a write in place otherwise
put(heap, ref, value) == [heap EXCEPT ![ref] = value]

\* lines 222-243 on the heap.  hs = [heap, ret_image, st]: ret_image names
\* the array the variable ret_image is bound to, st is the state draw_step
\* works on.  The canvas is filled in place (line 224); cv2.bitwise_and and
\* cv2.add return new arrays, and ret_image is bound to the last (line 238)
draw_step_heap(cfg, hs, index, rnd) ==
    LET s == draw_step(cfg, [hs.st EXCEPT !.img = hs.heap[hs.ret_image]],
                       index, hs.heap.img, hs.heap.masks,
                       hs.heap.bbox_labels, rnd)
        filled == IF index > Len(hs.heap.bbox_labels) THEN hs.heap
                  ELSE put(hs.heap, "full_sized_canvas",
                           [p \in Pixels |-> Last(s.painted).color])
    IN  IF s.status = "error"
        THEN [heap |-> filled, ret_image |-> hs.ret_image, st |-> s]
        ELSE [heap |-> put(filled, "new_image", s.img),
              ret_image |-> "new_image", st |-> s]

RECURSIVE draw_loop_heap(_, _, _, _, _)
draw_loop_heap(cfg, hs, order, k, rnd) ==
    IF k > Len(order) THEN hs
    ELSE The({IF next.st.status = "error" THEN next
              ELSE draw_loop_heap(cfg, next, order, k + 1, rnd) :
              next \in {draw_step_heap(cfg, hs, order[k], rnd)}})

\* _draw_standard_masks on the heap, lines 210-245: the canvas and the list
\* of (score, index) pairs are new, ret_image is bound to the array of the
\* parameter image (line 213); the value is [heap, ret_image, st], where
\* ret_image names the array returned
_draw_standard_masks_heap(cfg, colors, heap, rnd) ==
    draw_loop_heap(cfg,
        [heap |-> put(put(heap, "full_sized_canvas",
                          [p \in Pixels |-> <<0, 0, 0>>]),
                      "scores_with_indexes",
                      scores_with_indexes(heap.bbox_scores)),
         ret_image |-> "img",
         st |-> [status |-> "ok", img |-> heap.img, colors |-> colors,
                 counts |-> <<>>, used |-> 0, painted |-> <<>>]],
        scores_with_indexes(heap.bbox_scores), 1, rnd)

\* a variant that strokes the contours on the input image
_draw_contours_all_masks_heap_img(heap, image) ==
    put(heap, "img", _draw_contours_all_masks(heap.masks, heap[image]))

\* _draw_contours_all_masks on the heap: ret_image is bound to the array of
\* the parameter image (line 337) and cv2.drawContours writes into it
_draw_contours_all_masks_heap(heap, image) ==
    put(heap, image, _draw_contours_all_masks(heap.masks, heap[image]))

\* _mask_apply_effect on the heap: np.putmask writes into the new array
\* combined_masks; the transform, cv2.bitwise_and and cv2.add return new
\* arrays, and ret_image is bound to that of cv2.add (line 382)
_mask_apply_effect_heap(cfg, heap, effect, lib) ==
    LET combined == put(heap, "combined_masks", combined_masks(heap.masks))
        transformed == put(combined, "full_image_with_effect",
                           effect_transform(cfg, heap.img, effect, lib))
        added == put(transformed, "new_image",
                     _mask_apply_effect(
                         [cfg EXCEPT !.contours.show = PyBool(FALSE)],
                         heap.img, heap.masks,
                         transformed.full_image_with_effect))
    IN  [heap |-> IF truthy(cfg.contours.show)
                  THEN _draw_contours_all_masks_heap(added, "new_image")
                  ELSE added,
         ret_image |-> "new_image"]

\* run on the heap, lines 121-139: the first call of run_dispatch is made
\* (the break follows it) and the mapping returned holds the name of the
\* array under the key img; no mapping is returned when the call raises
\* or no call is made
run_heap(cfg, colors, heap, rnd, lib) ==
    LET cs == run_dispatch(cfg.effect, 1)
    IN  IF cs = <<>> THEN [status |-> "error", heap |-> heap, outputs |-> <<>>]
        ELSE IF cs[1].op = "_draw_standard_masks"
        THEN The({[status |-> out.st.status, heap |-> out.heap,
                   outputs |-> IF out.st.status = "ok"
                               THEN [key \in {"img"} |-> out.ret_image]
                               ELSE <<>>] :
                  out \in {_draw_standard_masks_heap(cfg, colors, heap, rnd)}})
        ELSE The({[status |-> "ok", heap |-> out.heap,
                   outputs |-> [key \in {"img"} |-> out.ret_image]] :
                  out \in {_mask_apply_effect_heap(cfg, heap, cs[1].effect,
                                                   lib)}})

-----------------------------------------------------------------------------
(* The inputs of the model *)

Labels == {"person", "kite"}
\* confidence scores, in tenths
Scores == {5, 9}
Masks == [Pixels -> {0, 1}]
\* the frames handed to run
Black == [p \in Pixels |-> <<0, 0, 0>>]
Photo == [p \in Pixels |-> IF p = 1 THEN <<10, 200, 31>> ELSE <<255, 255, 254>>]
Images == {Black, Photo}
\* the (h, s, v) triples randint draws: the ends of its ranges
RandomHsv == {<<0, 100, 255>>, <<179, 255, 255>>}

\* the masks handed to a node's run: each covers the first pixel only
RunMasks == {[p \in Pixels |-> IF p = 1 THEN 1 ELSE 0]}

Detections(n, masks) ==
    [1 .. n -> [label : Labels, score : Scores, mask : masks]]

SeqOf(f, field) == [i \in DOMAIN f |-> f[i][field]]

\* the candidate values of each entry of the effect mapping
EffectValues(k) ==
    CASE k = "standard_mask" -> {PyNone, PyBool(TRUE), PyBool(FALSE)}
      [] k = "contrast" -> {PyNone, PyFloat(0), PyFloat(15), PyFloat(35), PyInt(1)}
      [] k = "brightness" -> {PyNone, PyInt(0), PyInt(50), PyInt(150)}
      [] k = "gamma_correction" -> {PyNone, PyFloat(0), PyFloat(20), PyFloat(-10)}
      [] k = "blur" -> {PyNone, PyInt(5), PyInt(0)}
      [] k = "mosaic" -> {PyNone, PyInt(25), PyFloat(25)}
      [] OTHER -> {PyNone, PyBool(TRUE)}

\* the orders of the keys: as declared, reversed, and with an unknown key
KeyOrders ==
    {effects,
     [i \in 1 .. Len(effects) |-> effects[Len(effects) + 1 - i]],
     Append(effects, "sepia")}

\* the effect mappings over `keys`, in that order, with at most `budget`
\* non-null entries
RECURSIVE EffectSeqs(_, _)
EffectSeqs(keys, budget) ==
    IF keys = <<>> THEN {<<>>}
    ELSE LET k == Head(keys)
             null == {<<[k |-> k, v |-> PyNone]>> \o rest :
                         rest \in EffectSeqs(Tail(keys), budget)}
             set == IF budget = 0 THEN {}
                    ELSE UNION {{<<[k |-> k, v |-> val]>> \o rest :
                                    rest \in EffectSeqs(Tail(keys), budget - 1)} :
                                val \in EffectValues(k) \ {PyNone}}
         IN  null \cup set

EffectMappings == UNION {EffectSeqs(keys, MaxSet) : keys \in KeyOrders}

Configs ==
    [instance_color_scheme : {"random", "hue_family", "rainbow"},
     effect : EffectMappings,
     effect_area : {"objects", "background", "everything"},
     contours : [show : {PyBool(FALSE), PyBool(TRUE), PyInt(1)},
                 thickness : {PyInt(3), PyInt(0)}]]

-----------------------------------------------------------------------------
(* The life of one node *)

NoImage == <<>>

InitNodeVars ==
    /\ status = "none"
    /\ config = <<>>
    /\ class_instance_colors = <<>>
    /\ class_instance_counts = <<>>
    /\ calls = <<>>
    /\ result = [status |-> "none", img |-> NoImage]
    /\ painted = <<>>
    /\ first_color = <<>>

\* Node.__init__, lines 102-106: the store is created empty, then the
\* configuration is validated; when validation raises no node exists
Construct(cfg) ==
    /\ status = "none"
    /\ config' = cfg
    /\ class_instance_colors' = <<>>
    /\ status' = IF _validate_configs(cfg) THEN "ready" ELSE "failed"
    /\ UNCHANGED <<class_instance_counts, calls, result, painted, first_color>>


\* the history of first assignments, extended by the instances just painted
RECURSIVE record_first(_, _)
record_first(first, ps) ==
    IF ps = <<>> THEN first
    ELSE LET key == <<Head(ps).label, Head(ps).ordinal>>
         IN  record_first(IF key \in DOMAIN first THEN first
                          ELSE DictSet(first, key, Head(ps).color),
                          Tail(ps))

\* the calls of one run made in order on st = [colors, counts, painted,
\* result]; lines 124-136.  `transformed` is the frame the library
\* transforms (gamma, blur, mosaic) return
RECURSIVE run_calls(_, _, _, _, _, _, _)
run_calls(cs, st, cfg, image, dets, rnd, transformed) ==
    IF cs = <<>> THEN st
    ELSE IF Head(cs).op = "_draw_standard_masks"
         THEN The({IF out.status = "error"
                   THEN [colors |-> out.colors, counts |-> out.counts,
                         painted |-> out.painted,
                         result |-> [status |-> "error", img |-> NoImage]]
                   ELSE run_calls(Tail(cs),
                            [colors |-> out.colors, counts |-> out.counts,
                             painted |-> out.painted,
                             result |-> [status |-> "ok", img |-> out.img]],
                            cfg, image, dets, rnd, transformed) :
                   out \in {_draw_standard_masks(cfg, st.colors, image,
                                SeqOf(dets, "mask"), SeqOf(dets, "label"),
                                SeqOf(dets, "score"), rnd)}})
         ELSE run_calls(Tail(cs),
                  [st EXCEPT !.result =
                      [status |-> "ok",
                       img |-> _mask_apply_effect(cfg, image, SeqOf(dets, "mask"),
                                  effect_transform(cfg, image,
                                      Head(cs).effect, transformed))]],
                  cfg, image, dets, rnd, transformed)

\* Node.run, lines 121-139: with no call made output_img is unbound and the
\* return raises
Run(image, dets, rnd, transformed) ==
    /\ status = "ready"
    /\ \E cs \in {run_dispatch(config.effect, 1)} :
         \E st \in {run_calls(cs,
                        [colors |-> class_instance_colors,
                         counts |-> class_instance_counts,
                         painted |-> <<>>,
                         result |-> [status |-> "error", img |-> NoImage]],
                        config, image, dets, rnd, transformed)} :
           /\ calls' = cs
           /\ class_instance_colors' = st.colors
           /\ class_instance_counts' = st.counts
           /\ painted' = st.painted
           /\ result' = st.result
           /\ first_color' = record_first(first_color, st.painted)
    /\ UNCHANGED <<status, config>>

\* the streams of n draws of randint; none is drawn unless the scheme of
\* the node is "random"
RandomStreams(n) ==
    IF status = "ready" /\ config.instance_color_scheme = "random"
    THEN [1 .. n -> RandomHsv] ELSE {<<>>}

-----------------------------------------------------------------------------
(* The runner: a loop of steps; a step invokes every node of the pipeline   *)
(* in order on the shared pool, and the termination key is looked at        *)
(* between steps.                                                           *)

\* MockedNode.run: output number idx (from 0) is the string test_output_<idx>
test_output(i) ==
    CASE i = 0 -> "test_output_0"
      [] i = 1 -> "test_output_1"
      [] OTHER -> "test_output_2"

\* a variant that numbers the outputs from 1
MockedNode_run_from_one(node, inputs) ==
    [key \in Range(node.outputs) |->
        test_output(CHOOSE i \in DOMAIN node.outputs : node.outputs[i] = key)]

\* MockedNode.run: a dict from each declared output to its string
MockedNode_run(node, inputs) ==
    [key \in Range(node.outputs) |->
        test_output((CHOOSE i \in DOMAIN node.outputs : node.outputs[i] = key) - 1)]

\* the nodes of the tests: test_input_node, test_node_end, and the node
\* create_node_config describes
test_input_node ==
    [kind |-> "MockedNode", inputs |-> <<"none">>, outputs |-> <<"test_output_1">>]
test_node_end ==
    [kind |-> "MockedNode", inputs |-> <<"test_output_1">>,
     outputs |-> <<"test_output_2", "pipeline_end">>]
default_node ==
    [kind |-> "MockedNode", inputs |-> <<"none">>, outputs |-> <<"pipeline_end">>]
\* a node whose run may raise, and a node that writes an empty (falsy) value
raising_node ==
    [kind |-> "Raising", inputs |-> <<"test_output_1">>, outputs |-> <<"test_output_2">>]
falsy_node ==
    [kind |-> "Falsy", inputs |-> <<"none">>, outputs |-> <<"pipeline_end">>]

NodeChoices == {test_input_node, test_node_end, default_node, raising_node, falsy_node}

Pipelines == UNION {[1 .. n -> NodeChoices] : n \in 1 .. MaxNodes}

\* the outcomes of node.run(inputs): the dict it returns, or an error
node_run(node, inputs) ==
    CASE node.kind = "MockedNode" ->
            {[status |-> "ok", outputs |-> MockedNode_run(node, inputs)]}
      [] node.kind = "Falsy" ->
            {[status |-> "ok", outputs |-> [key \in Range(node.outputs) |-> ""]]}
      [] OTHER ->
            {[status |-> "ok", outputs |-> MockedNode_run(node, inputs)],
             [status |-> "raised", outputs |-> <<>>]}

\* the declared inputs of a node that the pool holds
node_inputs(node, data) ==
    [key \in Range(node.inputs) \cap DOMAIN data |-> data[key]]

\* dict.update
Update(data, outputs) ==
    [key \in DOMAIN data \cup DOMAIN outputs |->
        IF key \in DOMAIN outputs THEN outputs[key] ELSE data[key]]

\* a variant that never sees the termination key
pipeline_end_never(data) == FALSE

\* the termination key is present and truthy
pipeline_end(data) == "pipeline_end" \in DOMAIN data /\ data["pipeline_end"] # ""

InitRunnerVars ==
    /\ rstate = "Idle"
    /\ pool = <<>>
    /\ idx = 1
    /\ inflight = {}
    /\ step_log = <<>>
    /\ error = ""

IdleRunner ==
    /\ nodes = <<>>
    /\ terminate = FALSE
    /\ InitRunnerVars

\* Runner.run is called: the loop is entered unless pipeline.terminate is set
RunnerStart ==
    /\ rstate = "Idle"
    /\ rstate' = IF terminate THEN "Terminated" ELSE "Running"
    /\ UNCHANGED <<nodes, terminate, pool, idx, inflight, step_log, error>>

\* a variant that does not wait for the call before
may_invoke_always == TRUE

\* a node may be invoked when the call before it has returned
may_invoke == inflight = {}

\* the next node of the step is invoked with its inputs from the pool
InvokeNode ==
    /\ rstate = "Running"
    /\ idx <= Len(nodes)
    /\ may_invoke
    /\ inflight' = inflight \cup
                     {[node |-> idx, inputs |-> node_inputs(nodes[idx], pool)]}
    /\ step_log' = Append(step_log, [node |-> idx, returned |-> FALSE,
                                      outputs |-> <<>>])
    /\ idx' = idx + 1
    /\ UNCHANGED <<nodes, terminate, rstate, pool, error>>

\* a variant that goes on with the next node
on_error_continue == "Running"

\* what the runner does when node.run raised
on_error == "Failed"

\* a call returns: its outputs are merged into the pool; when it raised,
\* the loop is left and the error surfaced
ReturnNode ==
    /\ rstate = "Running"
    /\ \E call \in inflight :
         \E out \in node_run(nodes[call.node], call.inputs) :
            /\ inflight' = inflight \ {call}
            /\ IF out.status = "ok"
               THEN /\ pool' = Update(pool, out.outputs)
                    /\ step_log' = [i \in DOMAIN step_log |->
                                      IF step_log[i].node = call.node
                                      THEN [node |-> call.node, returned |-> TRUE,
                                            outputs |-> out.outputs]
                                      ELSE step_log[i]]
                    /\ UNCHANGED <<rstate, error>>
               ELSE /\ rstate' = on_error
                    /\ error' = "node error"
                    /\ UNCHANGED <<pool, step_log>>
    /\ UNCHANGED <<nodes, terminate, idx>>

\* between two steps: the loop ends when the termination key is set,
\* otherwise the next step starts with the first node
EndStep ==
    /\ rstate = "Running"
    /\ idx > Len(nodes)
    /\ inflight = {}
    /\ IF pipeline_end(pool)
       THEN rstate' = "Terminated" /\ UNCHANGED <<idx, step_log>>
       ELSE idx' = 1 /\ step_log' = <<>> /\ UNCHANGED rstate
    /\ UNCHANGED <<nodes, terminate, pool, inflight, error>>

-----------------------------------------------------------------------------
(* The mask compositor on its own: calls of _draw_standard_masks on one     *)
(* store, frame after frame, with the arguments of the last call kept.      *)

\* the masks of the compositor's frames: the first pixel, and every pixel
DrawMasks == {[p \in Pixels |-> IF p = 1 THEN 1 ELSE 0], [p \in Pixels |-> 1]}
DrawScores == {5, 7, 9}

NoCall == [called |-> FALSE]

IdleDraw ==
    /\ draw_store = <<>>
    /\ draw_in = NoCall
    /\ draw_out = NoCall

\* no colour lookup is under study
IdleColor ==
    /\ lookup = NoCall
    /\ twin = [colors |-> <<>>, counts |-> <<>>]

\* no run is under study with its arrays
IdleHeap == memory = NoCall

\* no CSVLogger exists
IdleCsv == logger = [open |-> FALSE]

\* no effect-engine call is under study
IdleEffect ==
    /\ fx_in = NoCall
    /\ fx_out = NoCall

\* the configurations of the compositor's node: all are accepted
DrawConfigs ==
    {cfg \in [instance_color_scheme : {"random", "hue_family"},
              effect : {[i \in DOMAIN effects |->
                           [k |-> effects[i],
                            v |-> IF i = 1 THEN PyBool(TRUE) ELSE PyNone]]},
              effect_area : {"objects"},
              contours : [show : {PyBool(FALSE), PyBool(TRUE)},
                          thickness : {PyInt(3)}]] : _validate_configs(cfg)}

InitDraw ==
    /\ InitNodeVars
    /\ IdleRunner
    /\ IdleEffect
    /\ IdleColor
    /\ IdleHeap
    /\ IdleCsv
    /\ draw_store = <<>>
    /\ draw_in \in {[called |-> FALSE, cfg |-> cfg] : cfg \in DrawConfigs}
    /\ draw_out = NoCall

\* one call of the compositor
DrawCall(image, dets, rnd) ==
    /\ ~ draw_in.called
    /\ draw_in' = [called |-> TRUE, cfg |-> draw_in.cfg, colors |-> draw_store,
                   image |-> image, dets |-> dets, rnd |-> rnd]
    /\ \E out \in {_draw_standard_masks(draw_in.cfg, draw_store, image,
                       SeqOf(dets, "mask"), SeqOf(dets, "label"),
                       SeqOf(dets, "score"), rnd)} :
          /\ draw_out' = [called |-> TRUE, status |-> out.status,
                          img |-> IF out.status = "ok" THEN out.img ELSE NoImage,
                          colors |-> out.colors, painted |-> out.painted]
          /\ draw_store' = out.colors

\* the next frame arrives: only the store is kept
DrawNextFrame ==
    /\ draw_in.called
    /\ draw_in' = [called |-> FALSE, cfg |-> draw_in.cfg]
    /\ draw_out' = NoCall
    /\ UNCHANGED draw_store

NextDraw ==
    \/ ~ draw_in.called /\ \E n \in 0 .. MaxInst :
         \E dets \in [1 .. n -> [label : Labels, score : DrawScores, mask : DrawMasks]],
            rnd \in (IF draw_in.cfg.instance_color_scheme = "random"
                     THEN [1 .. n -> RandomHsv] ELSE {<<>>}) :
            DrawCall(Photo, dets, rnd) /\ UNCHANGED <<nodeVars, runnerVars, effectVars, colorVars, heapVars, csvVars>>
    \/ DrawNextFrame /\ UNCHANGED <<nodeVars, runnerVars, effectVars, colorVars, heapVars, csvVars>>

\* one call of the compositor with masks, labels and scores of any lengths
RaggedCall(image, masks, bbox_labels, bbox_scores, rnd) ==
    /\ ~ draw_in.called
    /\ draw_in' = [called |-> TRUE, cfg |-> draw_in.cfg, colors |-> draw_store,
                   image |-> image, masks |-> masks,
                   bbox_labels |-> bbox_labels, bbox_scores |-> bbox_scores,
                   rnd |-> rnd]
    /\ \E out \in {_draw_standard_masks(draw_in.cfg, draw_store, image,
                       masks, bbox_labels, bbox_scores, rnd)} :
          /\ draw_out' = [called |-> TRUE, status |-> out.status,
                          img |-> IF out.status = "ok" THEN out.img ELSE NoImage,
                          colors |-> out.colors, painted |-> out.painted]
          /\ draw_store' = out.colors

NextRagged ==
    \/ ~ draw_in.called /\ \E nm, nl, ns \in 0 .. MaxInst :
         \E masks \in [1 .. nm -> DrawMasks], bbox_labels \in [1 .. nl -> Labels],
            bbox_scores \in [1 .. ns -> Scores],
            rnd \in (IF draw_in.cfg.instance_color_scheme = "random"
                     THEN [1 .. ns -> RandomHsv] ELSE {<<>>}) :
            RaggedCall(Photo, masks, bbox_labels, bbox_scores, rnd)
            /\ UNCHANGED <<nodeVars, runnerVars, effectVars, colorVars, heapVars, csvVars>>
    \/ DrawNextFrame /\ UNCHANGED <<nodeVars, runnerVars, effectVars, colorVars, heapVars, csvVars>>

-----------------------------------------------------------------------------
(* The effect engine on its own: calls of _mask_apply_effect, with the      *)
(* arguments of the last call kept.                                          *)

\* the accepted configurations whose run calls the effect engine
EffectConfigs ==
    {cfg \in [instance_color_scheme : {"hue_family"},
              effect : EffectSeqs(effects, 1),
              effect_area : {"objects", "background"},
              contours : [show : {PyBool(FALSE), PyBool(TRUE)},
                          thickness : {PyInt(3)}]] :
        /\ _validate_configs(cfg)
        /\ run_dispatch(cfg.effect, 1) # <<>>
        /\ run_dispatch(cfg.effect, 1)[1].op = "_mask_apply_effect"}

InitEffect ==
    /\ InitNodeVars
    /\ IdleRunner
    /\ IdleDraw
    /\ IdleColor
    /\ IdleHeap
    /\ IdleCsv
    /\ fx_in \in {[called |-> FALSE, cfg |-> cfg] : cfg \in EffectConfigs}
    /\ fx_out = NoCall

\* one call of the effect engine, as run makes it (lines 131-135)
EffectCall(image, masks, lib) ==
    /\ ~ fx_in.called
    /\ \E effect \in {run_dispatch(fx_in.cfg.effect, 1)[1].effect} :
          /\ fx_in' = [called |-> TRUE, cfg |-> fx_in.cfg, effect |-> effect,
                       image |-> image, masks |-> masks, lib |-> lib]
          /\ fx_out' = [called |-> TRUE,
                        img |-> _mask_apply_effect(fx_in.cfg, image, masks,
                                   effect_transform(fx_in.cfg, image,
                                                          effect, lib))]

\* the next frame arrives
EffectNextFrame ==
    /\ fx_in.called
    /\ fx_in' = [called |-> FALSE, cfg |-> fx_in.cfg]
    /\ fx_out' = NoCall

NextEffect ==
    \/ ~ fx_in.called /\ \E n \in 0 .. MaxInst :
         \E masks \in [1 .. n -> Masks], image \in Images, lib \in Images :
            EffectCall(image, masks, lib) /\ UNCHANGED <<nodeVars, runnerVars, drawVars, colorVars, heapVars, csvVars>>
    \/ EffectNextFrame /\ UNCHANGED <<nodeVars, runnerVars, drawVars, colorVars, heapVars, csvVars>>

-----------------------------------------------------------------------------
(* The colour lookups on their own: two nodes built from the same           *)
(* configuration are given the same labels, frame after frame; each has its *)
(* own store, its own counts and its own random draws.                      *)

\* the configurations of the two nodes: scheme hue_family
ColorConfigs ==
    {cfg \in DrawConfigs : /\ cfg.instance_color_scheme = "hue_family"
                           /\ ~ truthy(cfg.contours.show)}

\* both nodes have been constructed (lines 102-106): their stores are empty
InitColor ==
    /\ status = "ready"
    /\ config \in ColorConfigs
    /\ class_instance_colors = <<>>
    /\ class_instance_counts = <<>>
    /\ calls = <<>>
    /\ result = [status |-> "none", img |-> NoImage]
    /\ painted = <<>>
    /\ first_color = <<>>
    /\ IdleRunner
    /\ IdleDraw
    /\ IdleEffect
    /\ IdleColor
    /\ IdleHeap
    /\ IdleCsv

\* line 210: a call of _draw_standard_masks starts and resets the counts
ColorFrame ==
    /\ status = "ready"
    /\ class_instance_counts' = <<>>
    /\ twin' = [twin EXCEPT !.counts = <<>>]
    /\ lookup' = NoCall
    /\ UNCHANGED <<status, config, class_instance_colors, calls, result,
                   painted, first_color>>

\* line 222: _get_instance_color is called for the same label in both
\* nodes; draw and twin_draw are what randint returns in each
ColorLookup(instance_class, draw, twin_draw) ==
    /\ status = "ready"
    /\ DictGet(class_instance_counts, instance_class, 0) < MaxChain
    /\ \E got \in {_get_instance_color(config.instance_color_scheme,
                        [colors |-> class_instance_colors,
                         counts |-> class_instance_counts, used |-> 0],
                        instance_class, <<draw>>)},
          twin_got \in {_get_instance_color(config.instance_color_scheme,
                        [colors |-> twin.colors, counts |-> twin.counts,
                         used |-> 0],
                        instance_class, <<twin_draw>>)} :
          /\ class_instance_colors' = got.colors
          /\ class_instance_counts' = got.counts
          /\ twin' = [colors |-> twin_got.colors, counts |-> twin_got.counts]
          /\ lookup' = [called |-> TRUE, label |-> instance_class,
                        ordinal |-> got.ordinal, color |-> got.color,
                        twin_color |-> twin_got.color,
                        same_draw |-> draw = twin_draw,
                        before |-> DictGet(class_instance_colors,
                                           instance_class, <<>>)]
    /\ UNCHANGED <<status, config, calls, result, painted, first_color>>

NextColor ==
    \/ \E instance_class \in Labels, draw, twin_draw \in RandomHsv :
          ColorLookup(instance_class, draw, twin_draw)
          /\ UNCHANGED <<runnerVars, drawVars, effectVars, heapVars, csvVars>>
    \/ ColorFrame /\ UNCHANGED <<runnerVars, drawVars, effectVars, heapVars, csvVars>>

-----------------------------------------------------------------------------
(* Construction on its own, offered values of every type at and around the *)
(* limits of each parameter.                                                *)

\* the candidate values of each entry of the effect mapping
ValidateValues(k) ==
    CASE k = "standard_mask" -> {PyNone, PyBool(TRUE), PyBool(FALSE)}
      [] k = "contrast" -> {PyNone, PyFloat(0), PyFloat(30), PyFloat(31),
                            PyFloat(-1), PyInt(1), PyBool(TRUE)}
      [] k = "brightness" -> {PyNone, PyInt(-100), PyInt(100), PyInt(101),
                              PyInt(-101), PyFloat(50), PyBool(TRUE)}
      [] k = "gamma_correction" -> {PyNone, PyFloat(0), PyFloat(20),
                                    PyFloat(-1), PyInt(2)}
      [] k = "blur" -> {PyNone, PyInt(1), PyInt(0), PyFloat(50), PyBool(TRUE)}
      [] k = "mosaic" -> {PyNone, PyInt(1), PyInt(0), PyInt(-1), PyFloat(250)}
      [] OTHER -> {PyNone}

\* the effect mappings over `keys` with at most `budget` non-null entries
RECURSIVE ValidateSeqs(_, _)
ValidateSeqs(keys, budget) ==
    IF keys = <<>> THEN {<<>>}
    ELSE LET k == Head(keys)
             null == {<<[k |-> k, v |-> PyNone]>> \o rest :
                         rest \in ValidateSeqs(Tail(keys), budget)}
             set == IF budget = 0 THEN {}
                    ELSE UNION {{<<[k |-> k, v |-> val]>> \o rest :
                                    rest \in ValidateSeqs(Tail(keys), budget - 1)} :
                                val \in ValidateValues(k) \ {PyNone}}
         IN  null \cup set

\* the candidate contours settings: one of the two entries varies
ValidateContours ==
    [show : {PyNone, PyBool(FALSE), PyBool(TRUE), PyInt(1), PyInt(0)},
     thickness : {PyInt(1)}]
        \cup [show : {PyBool(TRUE)},
              thickness : {PyNone, PyInt(1), PyInt(0), PyFloat(30),
                           PyBool(TRUE)}]

ValidateConfigs ==
    [instance_color_scheme : {"hue_family"},
     effect : ValidateSeqs(effects, MaxSet),
     effect_area : {"objects"},
     contours : ValidateContours]

NextValidate ==
    \E cfg \in ValidateConfigs :
       Construct(cfg) /\ UNCHANGED <<runnerVars, drawVars, effectVars, colorVars, heapVars, csvVars>>

-----------------------------------------------------------------------------
(* The runs of one node with the arrays of each call kept: the caller's     *)
(* arrays as they were at the call, every array after it, and the mapping   *)
(* returned.                                                                *)

\* accepted configurations of both kinds, contours off and on
HeapConfigs ==
    {cfg \in DrawConfigs : cfg.instance_color_scheme = "hue_family"}
        \cup EffectConfigs

InitHeap ==
    /\ status = "ready"
    /\ config \in HeapConfigs
    /\ class_instance_colors = <<>>
    /\ class_instance_counts = <<>>
    /\ calls = <<>>
    /\ result = [status |-> "none", img |-> NoImage]
    /\ painted = <<>>
    /\ first_color = <<>>
    /\ IdleRunner
    /\ IdleDraw
    /\ IdleEffect
    /\ IdleColor
    /\ IdleHeap
    /\ IdleCsv

\* Node.run, with the arrays it reads and writes
HeapRun(image, dets, rnd, lib) ==
    /\ ~ memory.called
    /\ \E heap \in {entry_heap(image, SeqOf(dets, "mask"), SeqOf(dets, "label"),
                                SeqOf(dets, "score"))} :
         \E out \in {run_heap(config, class_instance_colors, heap, rnd, lib)} :
            memory' = [called |-> TRUE, before |-> heap, heap |-> out.heap,
                       status |-> out.status, outputs |-> out.outputs]
    /\ Run(image, dets, rnd, lib)

\* the next frame arrives
HeapNextFrame ==
    /\ memory.called
    /\ memory' = NoCall
    /\ UNCHANGED nodeVars

NextHeap ==
    \/ ~ memory.called /\ \E n \in 0 .. MaxInst :
         \E dets \in [1 .. n -> [label : Labels, score : Scores, mask : DrawMasks]],
            lib \in Images :
            HeapRun(Photo, dets, <<>>, lib)
            /\ UNCHANGED <<runnerVars, drawVars, effectVars, colorVars, csvVars>>
    \/ HeapNextFrame /\ UNCHANGED <<runnerVars, drawVars, effectVars, colorVars, csvVars>>

-----------------------------------------------------------------------------
(* The CSV logger (output/utils/csv.py).  Times are whole seconds on the    *)
(* clock datetime.now() reads; the data of a row plays no part in the       *)
(* decision to write it and is left out.                                    *)

\* the seconds of a day: timedelta.seconds is the part of the difference
\* below one day, the whole days being held in timedelta.days
SecondsPerDay == 86400

\* (curr_time - self.last_write).seconds, for curr_time >= last_write
timedelta_seconds(curr_time, last_write) ==
    (curr_time - last_write) % SecondsPerDay

\* line 41: the test that lets a row be written
write_due(curr_time, last_write, logging_interval) ==
    timedelta_seconds(curr_time, last_write) >= logging_interval

\* the values of logging_interval
Intervals == {1, 2}

\* the time that passes between two calls, construction counted as one:
\* around the interval and around one day
Gaps == {0, 1, 2, 3, SecondsPerDay - 1, SecondsPerDay, SecondsPerDay + 1,
         SecondsPerDay + 2}

\* CSVLogger.__init__, lines 24-34, called at time 0: last_write is the time
\* of construction and the file holds no row
InitCsv ==
    /\ InitNodeVars
    /\ IdleRunner
    /\ IdleDraw
    /\ IdleEffect
    /\ IdleColor
    /\ IdleHeap
    /\ \E logging_interval \in Intervals :
          logger = [open |-> TRUE, logging_interval |-> logging_interval,
                    last_write |-> 0, rows |-> <<>>, now |-> 0, writes |-> 0,
                    wrote |-> FALSE, since |-> 0]

\* CSVLogger.write, lines 36-43, called `gap` seconds after the previous
\* call.  `rows` holds the times at which the rows were appended, `since`
\* the value of last_write the call found
CsvWrite(gap) ==
    /\ logger.open
    /\ logger.writes < MaxWrites
    /\ \E curr_time \in {logger.now + gap} :
          logger' =
              IF write_due(curr_time, logger.last_write, logger.logging_interval)
              THEN [logger EXCEPT !.rows = Append(@, curr_time),
                                  !.last_write = curr_time,
                                  !.now = curr_time,
                                  !.writes = @ + 1,
                                  !.wrote = TRUE,
                                  !.since = logger.last_write]
              ELSE [logger EXCEPT !.now = curr_time,
                                  !.writes = @ + 1,
                                  !.wrote = FALSE,
                                  !.since = logger.last_write]

NextCsv ==
    \E gap \in Gaps :
       CsvWrite(gap)
       /\ UNCHANGED <<nodeVars, runnerVars, drawVars, effectVars, colorVars, heapVars>>

Init ==
    /\ InitNodeVars /\ IdleRunner /\ IdleDraw /\ IdleEffect /\ IdleColor
    /\ IdleHeap /\ IdleCsv

Next ==
    \/ status = "none" /\ \E cfg \in Configs :
         Construct(cfg) /\ UNCHANGED <<runnerVars, drawVars, effectVars, colorVars, heapVars, csvVars>>
    \/ status = "ready" /\ \E n \in 0 .. MaxInst :
         \E dets \in Detections(n, RunMasks), rnd \in RandomStreams(n) :
            Run(Photo, dets, rnd, Black) /\ UNCHANGED <<runnerVars, drawVars, effectVars, colorVars, heapVars, csvVars>>

vars == <<nodeVars, runnerVars, drawVars, effectVars, colorVars, heapVars, csvVars>>

Spec == Init /\ [][Next]_vars

InitRunner ==
    /\ InitNodeVars
    /\ IdleDraw
    /\ IdleEffect
    /\ IdleColor
    /\ IdleHeap
    /\ IdleCsv
    /\ nodes \in Pipelines
    /\ terminate \in BOOLEAN
    /\ InitRunnerVars

NextRunner ==
    \/ RunnerStart /\ UNCHANGED <<nodeVars, drawVars, effectVars, colorVars, heapVars, csvVars>>
    \/ InvokeNode /\ UNCHANGED <<nodeVars, drawVars, effectVars, colorVars, heapVars, csvVars>>
    \/ ReturnNode /\ UNCHANGED <<nodeVars, drawVars, effectVars, colorVars, heapVars, csvVars>>
    \/ EndStep /\ UNCHANGED <<nodeVars, drawVars, effectVars, colorVars, heapVars, csvVars>>

SpecRunner == InitRunner /\ [][NextRunner]_vars

\* run() is a synchronous loop: once called it keeps taking its next step,
\* and a call of node.run comes back
SpecRunnerFair == SpecRunner /\ WF_vars(NextRunner)

SpecDraw == InitDraw /\ [][NextDraw]_vars

SpecEffect == InitEffect /\ [][NextEffect]_vars

\* the compositor called with inputs whose lengths need not agree
SpecRagged == InitDraw /\ [][NextRagged]_vars

SpecColor == InitColor /\ [][NextColor]_vars

\* the runs of a node and the arrays they touch
SpecHeap == InitHeap /\ [][NextHeap]_vars

\* the calls of CSVLogger.write over time
SpecCsv == InitCsv /\ [][NextCsv]_vars

\* construction alone
SpecValidate == Init /\ [][NextValidate]_vars

-----------------------------------------------------------------------------
(* Properties of the node *)

\* a run call has been made on the node
HasRun == status = "ready" /\ result.status # "none"

\* the entries of the effect mapping whose value is truthy
Enabled(effect) == {i \in DOMAIN effect : truthy(effect[i].v)}

\* C1: every run of a constructed node makes exactly one call: the mask
\* compositor (for standard_mask), or the effect engine with one effect that
\* is not standard_mask; never none, never two
C1_ExactlyOneAction ==
    HasRun =>
        /\ Len(calls) = 1
        /\ \/ calls[1] = [op |-> "_draw_standard_masks", effect |-> "standard_mask"]
           \/ /\ calls[1].op = "_mask_apply_effect"
              /\ calls[1].effect \in Range(effects) \ {"standard_mask"}

C1_Witness ==
    /\ HasRun
    /\ calls = <<[op |-> "_draw_standard_masks", effect |-> "standard_mask"]>>
    /\ result.status = "ok"
    /\ Cardinality({i \in DOMAIN config.effect : config.effect[i].v # PyNone}) = 2

\* the call the active effect (the one entry validation counted) selects
ActiveCall(effect) ==
    LET k == effect[CHOOSE i \in Enabled(effect) : TRUE].k
    IN  IF k = "standard_mask"
        THEN [op |-> "_draw_standard_masks", effect |-> k]
        ELSE [op |-> "_mask_apply_effect", effect |-> k]

\* C2: the call a run makes is the one selected by the active effect,
\* whatever the other entries of the mapping and their order are
C2_DispatchFollowsActive == HasRun => calls = <<ActiveCall(config.effect)>>

\* a configuration that construction must refuse
Refused(cfg) ==
    \/ cfg.instance_color_scheme \notin {"random", "hue_family"}
    \/ cfg.effect_area \notin {"objects", "background"}
    \/ \E i \in DOMAIN cfg.effect : cfg.effect[i].k \notin Range(effects)
    \/ Cardinality(Enabled(cfg.effect)) = 0
    \/ Cardinality(Enabled(cfg.effect)) > 1

\* C3: construction with a bad colour scheme, a bad effect area, an unknown
\* effect key, no enabled effect or several enabled effects fails: no node
\* exists, nothing is run on it and the store is never written
C3_BadConfigFailsAtConstruction ==
    (status # "none" /\ Refused(config)) =>
        /\ status = "failed"
        /\ calls = <<>>
        /\ result.status = "none"
        /\ class_instance_colors = <<>>

C3_Witness ==
    /\ status = "failed"
    /\ Cardinality(Enabled(config.effect)) = 2
    /\ config.instance_color_scheme = "hue_family"
    /\ config.effect_area = "objects"
    /\ \A i \in DOMAIN config.effect : config.effect[i].k \in Range(effects)
    /\ params_ok(config)

\* the number of entries of `ps` before position i with the label of ps[i]
EarlierOfLabel(ps, i) ==
    Cardinality({j \in 1 .. i - 1 : ps[j].label = ps[i].label})

\* C4: within a run the instances of a label are numbered 1, 2, ... in the
\* order they are painted, from 1 in every run, and the k-th instance of a
\* label is painted in the colour first assigned to the k-th instance of
\* that label, in whichever run that was
C4_InstanceColorSticks ==
    \A i \in DOMAIN painted :
        /\ painted[i].ordinal = EarlierOfLabel(painted, i) + 1
        /\ <<painted[i].label, painted[i].ordinal>> \in DOMAIN first_color
        /\ painted[i].color = first_color[<<painted[i].label, painted[i].ordinal>>]

\* the last run painted one "person", in the first of two different colours
\* that earlier runs stored for that label
C4_Witness ==
    /\ HasRun
    /\ Len(painted) = 1
    /\ painted[1].label = "person"
    /\ "person" \in DOMAIN class_instance_colors
    /\ Len(class_instance_colors["person"]) = 2
    /\ class_instance_colors["person"][1] # class_instance_colors["person"][2]
    /\ painted[1].color = class_instance_colors["person"][1]

\* the store `new` holds everything the store `old` holds, unchanged
Extends(old, new) ==
    /\ DOMAIN old \subseteq DOMAIN new
    /\ \A l \in DOMAIN old :
          /\ Len(old[l]) <= Len(new[l])
          /\ SubSeq(new[l], 1, Len(old[l])) = old[l]

\* C5: the store is empty when the node is constructed, every step leaves
\* every stored colour in place (labels and colours are only added, at
\* the end of a list), and the count of each label never exceeds the
\* length of its list
C5_StoreOnlyGrows ==
    /\ [][status = "none" => class_instance_colors' = <<>>]_vars
    /\ [][status # "none" =>
             Extends(class_instance_colors, class_instance_colors')]_vars
    /\ [](\A l \in DOMAIN class_instance_counts :
             /\ l \in DOMAIN class_instance_colors
             /\ class_instance_counts[l] <= Len(class_instance_colors[l]))

C5_Witness ==
    /\ HasRun
    /\ DOMAIN class_instance_colors = {"person", "kite"}
    /\ Len(class_instance_colors["kite"]) = 2
    /\ DOMAIN class_instance_counts = {"person"}
    /\ class_instance_counts["person"] = 1

-----------------------------------------------------------------------------
(* Properties of the runner *)

\* the pipeline of test_run_nodes, with pipeline.terminate left unset
TestRun == nodes = <<test_input_node, test_node_end>> /\ ~ terminate

\* correct_data of test_run_nodes
correct_data ==
    [key \in {"test_output_1", "test_output_2", "pipeline_end"} |->
        IF key = "pipeline_end" THEN "test_output_1" ELSE "test_output_0"]

\* C6: the run of the two test nodes ends, and when it has ended the pool
\* holds exactly test_output_1, test_output_2 and pipeline_end with the
\* values the two nodes produced
C6_TestPipelineTerminates ==
    /\ TestRun ~> (rstate = "Terminated")
    /\ []((TestRun /\ rstate = "Terminated") => pool = correct_data)

C6_Witness == TestRun /\ rstate = "Terminated" /\ pool = correct_data

\* the runner is between two steps: every node of the step has returned
BetweenSteps == rstate = "Running" /\ idx > Len(nodes) /\ inflight = {}

SentinelSet == "pipeline_end" \in DOMAIN pool /\ pool["pipeline_end"] # ""

\* C7: with no pipeline_end in the pool the runner stays Running and starts
\* another step; with pipeline_end present and truthy at the end of a step it
\* reaches Terminated and starts nothing more; it leaves Running for
\* Terminated only between two steps
C7_SentinelEndsLoop ==
    /\ [][(BetweenSteps /\ "pipeline_end" \notin DOMAIN pool) =>
             (rstate' = "Running" /\ idx' = 1 /\ step_log' = <<>>)]_runnerVars
    /\ (BetweenSteps /\ "pipeline_end" \notin DOMAIN pool) ~>
             (rstate = "Running" /\ idx = 1)
    /\ (BetweenSteps /\ SentinelSet) ~> (rstate = "Terminated")
    /\ [][rstate = "Terminated" => UNCHANGED runnerVars]_runnerVars
    /\ [][(rstate = "Running" /\ rstate' = "Terminated") =>
             (BetweenSteps /\ SentinelSet)]_runnerVars

\* in the middle of a step pipeline_end is already set and the next node
\* is running all the same
C7_Witness ==
    /\ rstate = "Running"
    /\ SentinelSet
    /\ idx <= Len(nodes) + 1
    /\ \E call \in inflight : call.node = 2

\* the value the calls of the step before position k last wrote to `key`
LastWritten(key, k) ==
    LET j == CHOOSE j \in 1 .. k - 1 :
                 /\ key \in DOMAIN step_log[j].outputs
                 /\ \A m \in j + 1 .. k - 1 : key \notin DOMAIN step_log[m].outputs
    IN  step_log[j].outputs[key]

\* C8: in a step the nodes are invoked once each in the configured order;
\* a node is invoked only when every node before it has returned and its
\* outputs are in the pool, so that its inputs hold the keys they wrote;
\* no two calls are under way together
C8_NodesRunInOrder ==
    /\ Cardinality(inflight) <= 1
    /\ \A i \in DOMAIN step_log : step_log[i].node = i
    /\ rstate = "Running" => idx = Len(step_log) + 1
    /\ BetweenSteps => Len(step_log) = Len(nodes)
    /\ \A call \in inflight :
          /\ call.node = Len(step_log)
          /\ \A j \in 1 .. call.node - 1 :
                /\ step_log[j].returned
                /\ \A key \in DOMAIN step_log[j].outputs :
                      /\ key \in DOMAIN pool
                      /\ pool[key] = LastWritten(key, call.node)
                      /\ key \in Range(nodes[call.node].inputs) =>
                            /\ key \in DOMAIN call.inputs
                            /\ call.inputs[key] = LastWritten(key, call.node)

\* test_node_end is running on the test_output_1 the first node wrote
C8_Witness ==
    /\ nodes = <<test_input_node, test_node_end>>
    /\ inflight = {[node |-> 2,
                    inputs |-> [key \in {"test_output_1"} |-> "test_output_0"]]}

\* C9: when a node's run raises the runner stops with the error: the call
\* is not made again, no later node of the step is invoked and no step is
\* started
C9_NodeErrorIsFatal ==
    /\ [](error # "" => (rstate = "Failed" /\ inflight = {}))
    /\ [][error # "" => UNCHANGED runnerVars]_runnerVars

\* the first of two nodes raised; the second was never invoked
C9_Witness ==
    /\ rstate = "Failed"
    /\ error # ""
    /\ Len(nodes) = 2
    /\ Len(step_log) = 1
    /\ ~ step_log[1].returned

-----------------------------------------------------------------------------
(* Properties of the mask compositor *)

Perms(n) == {p \in [1 .. n -> 1 .. n] : \A i, j \in 1 .. n : p[i] = p[j] => i = j}

DistinctScores(dets) ==
    \A i, j \in DOMAIN dets : i # j => dets[i].score # dets[j].score

\* the compositor called as in draw_in, with the detections in the order p
Permuted(p) ==
    LET dets == [i \in DOMAIN draw_in.dets |-> draw_in.dets[p[i]]]
    IN  _draw_standard_masks(draw_in.cfg, draw_in.colors, draw_in.image,
            SeqOf(dets, "mask"), SeqOf(dets, "label"), SeqOf(dets, "score"),
            draw_in.rnd)

\* C10: with all scores distinct, the compositor called from the same store
\* (and the same random draws) on the detections in any other order returns
\* the same image and leaves the same store; detections are painted in
\* ascending order of score, those of equal score in their input order
C10_OrderInvariance ==
    draw_in.called =>
        /\ DistinctScores(draw_in.dets) =>
              \A p \in Perms(Len(draw_in.dets)) :
                 \E out \in {Permuted(p)} :
                    /\ out.status = draw_out.status
                    /\ out.colors = draw_out.colors
                    /\ out.status = "ok" => out.img = draw_out.img
        /\ \A a, b \in DOMAIN draw_out.painted :
              a < b =>
                 LET ia == draw_out.painted[a].index
                     ib == draw_out.painted[b].index
                 IN  /\ draw_in.dets[ia].score <= draw_in.dets[ib].score
                     /\ draw_in.dets[ia].score = draw_in.dets[ib].score => ia < ib
        /\ draw_out.status = "ok" =>
              {draw_out.painted[a].index : a \in DOMAIN draw_out.painted}
                 = DOMAIN draw_in.dets

\* two detections of different labels, the first with the higher score,
\* both covering the first pixel: the sort reverses them
C10_Witness ==
    /\ draw_in.called
    /\ draw_out.status = "ok"
    /\ Len(draw_in.dets) = 2
    /\ draw_in.dets[1].score > draw_in.dets[2].score
    /\ draw_in.dets[1].label # draw_in.dets[2].label
    /\ draw_in.dets[1].mask # draw_in.dets[2].mask
    /\ <<draw_out.painted[1].index, draw_out.painted[2].index>> = <<2, 1>>
    /\ draw_in.colors # <<>>

\* C13: a compositor call with no detections does not fail, returns the
\* input image pixel for pixel and leaves the colour store as it was,
\* with contours on or off and whatever the store holds
C13_NoInstancesNoChange ==
    (draw_in.called /\ draw_in.dets = <<>>) =>
        /\ draw_out.status = "ok"
        /\ draw_out.img = draw_in.image
        /\ draw_out.colors = draw_in.colors
        /\ draw_store = draw_in.colors

\* a frame without detections after frames that filled the store, with
\* contours on
C13_Witness ==
    /\ draw_in.called
    /\ draw_in.dets = <<>>
    /\ truthy(draw_in.cfg.contours.show)
    /\ draw_in.colors # <<>>
    /\ draw_out.status = "ok"
    /\ draw_out.img = Photo

\* C12: a compositor call whose masks, labels and scores do not all have
\* the same length fails with an error and returns no image
C12_LengthMismatchFails ==
    (/\ draw_in.called
     /\ ~ (/\ Len(draw_in.masks) = Len(draw_in.bbox_labels)
           /\ Len(draw_in.bbox_labels) = Len(draw_in.bbox_scores)))
    => draw_out.status = "error"

-----------------------------------------------------------------------------
(* Properties of the effect engine *)

\* pixel p is covered by at least one of the masks
Covered(masks, p) == \E i \in DOMAIN masks : masks[i][p] # 0

\* the effect engine called as in fx_in, on the area `area`
OnArea(area) ==
    _mask_apply_effect([fx_in.cfg EXCEPT !.effect_area = area], fx_in.image,
        fx_in.masks,
        effect_transform(fx_in.cfg, fx_in.image, fx_in.effect, fx_in.lib))

\* C11: with contours off, every pixel covered by a mask is the transformed
\* pixel in the "objects" output and the original pixel in the "background"
\* output; every pixel covered by no mask is the original pixel in the
\* "objects" output and the transformed pixel in the "background" output
C11_EffectAreaComplement ==
    (fx_in.called /\ ~ truthy(fx_in.cfg.contours.show)) =>
        LET T == effect_transform(fx_in.cfg, fx_in.image, fx_in.effect,
                                        fx_in.lib)
            objects == OnArea("objects")
            background == OnArea("background")
        IN  /\ fx_out.img = OnArea(fx_in.cfg.effect_area)
            /\ \A p \in Pixels :
                  IF Covered(fx_in.masks, p)
                  THEN objects[p] = T[p] /\ background[p] = fx_in.image[p]
                  ELSE objects[p] = fx_in.image[p] /\ background[p] = T[p]

\* two masks, only the first covering a pixel, on a frame the transform
\* changes at both pixels, area "background"
C11_Witness ==
    /\ fx_in.called
    /\ ~ truthy(fx_in.cfg.contours.show)
    /\ fx_in.cfg.effect_area = "background"
    /\ fx_in.effect = "contrast"
    /\ fx_in.image = Photo
    /\ Len(fx_in.masks) = 2
    /\ Covered(fx_in.masks, 1) /\ ~ Covered(fx_in.masks, 2)
    /\ fx_in.masks[2][1] = 0
    /\ fx_out.img[1] = Photo[1]
    /\ fx_out.img[2] # Photo[2]

\* C20: with contours.show enabled and effect standard_mask, a call on a
\* frame with at least one instance completes without error (and returns the
\* composited image with the contours stroked)
C20_ContoursComplete ==
    (/\ draw_in.called
     /\ truthy(draw_in.cfg.contours.show)
     /\ Len(draw_in.dets) >= 1) => draw_out.status = "ok"

\* the detections of the last call whose mask covers pixel p
Covering(p) == {i \in DOMAIN draw_in.dets : draw_in.dets[i].mask[p] # 0}

\* the covering detection of highest score, the latest in input order among
\* those of equal highest score
Topmost(p) ==
    CHOOSE i \in Covering(p) :
        \A j \in Covering(p) :
            \/ draw_in.dets[j].score < draw_in.dets[i].score
            \/ draw_in.dets[j].score = draw_in.dets[i].score /\ j <= i

\* the colour the last call gave to detection i
PaintedColor(i) ==
    (CHOOSE e \in Range(draw_out.painted) : e.index = i).color

\* C21: with contours off, at a pixel covered by masks the output is the
\* ALPHA blend of the original pixel with the colour of the covering
\* instance of highest score (the latest in input order among equal highest
\* scores), whatever the colours of the others; at a pixel covered by no
\* mask the output is the original pixel
C21_TopmostWins ==
    (/\ draw_in.called
     /\ ~ truthy(draw_in.cfg.contours.show)
     /\ draw_out.status = "ok") =>
        \A p \in Pixels :
            draw_out.img[p] =
                IF Covering(p) = {} THEN draw_in.image[p]
                ELSE blend_pixel(PaintedColor(Topmost(p)), draw_in.image[p])

\* two instances of different colours and equal scores cover a pixel,
\* which shows the second one, and another pixel is covered by none
C21_Witness ==
    /\ draw_in.called
    /\ draw_out.status = "ok"
    /\ Len(draw_in.dets) = 2
    /\ draw_in.dets[1].score = draw_in.dets[2].score
    /\ \E p \in Pixels :
          /\ Covering(p) = {1, 2}
          /\ PaintedColor(1) # PaintedColor(2)
          /\ draw_out.img[p] = blend_pixel(PaintedColor(2), draw_in.image[p])
          /\ draw_out.img[p] # blend_pixel(PaintedColor(1), draw_in.image[p])
    /\ \E p \in Pixels : Covering(p) = {}

-----------------------------------------------------------------------------
(* Properties of the colour assignment *)

\* the lookup made a new colour, the first of its label
FirstOfLabel == lookup.called /\ lookup.before = <<>>

\* the lookup made a new colour for a label that had one stored
LaterOfLabel ==
    /\ lookup.called
    /\ lookup.before # <<>>
    /\ lookup.ordinal > Len(lookup.before)

\* the preset colour of a label
Preset(instance_class) ==
    IF instance_class \in DOMAIN CLASS_COLORS THEN CLASS_COLORS[instance_class]
    ELSE DEFAULT_CLASS_COLOR

\* C14: under hue_family the first colour stored for a label is its preset
\* colour, or the default colour when it has none, whatever the store holds
\* for the other labels
C14_FirstColorIsPreset ==
    /\ FirstOfLabel => lookup.color = Preset(lookup.label)
    /\ \A l \in DOMAIN class_instance_colors :
          class_instance_colors[l] # <<>> =>
             class_instance_colors[l][1] = Preset(l)

\* the first "kite", coloured after two "person"
C14_Witness ==
    /\ FirstOfLabel
    /\ lookup.label = "kite"
    /\ lookup.color = DEFAULT_CLASS_COLOR
    /\ "person" \in DOMAIN class_instance_colors
    /\ Len(class_instance_colors["person"]) = 2
    /\ class_instance_colors["person"][1] = <<156, 223, 244>>

\* twice the fixed step (256 - 100) / 8
Step2 == (2 * (256 - SATURATION_MINIMUM)) \div SATURATION_STEPS

\* the saturation the stepping rule with a clamp gives after `sat`
clamped_saturation(sat) ==
    LET wrapped2 == (2 * sat + Step2) % (2 * 256)
    IN  IF wrapped2 < 2 * SATURATION_MINIMUM THEN SATURATION_MINIMUM
        ELSE wrapped2 \div 2

\* C15: under hue_family a new instance of a label that has a stored colour
\* gets the hue and value of the label's last stored colour, and its
\* saturation plus the step, modulo 256, clamped up to 100 when below 100
C15_SaturationStepClamped ==
    LaterOfLabel =>
        LET color_hsv == _bgr_to_hsv(Last(lookup.before))
        IN  lookup.color = _hsv_to_bgr(<<color_hsv[1],
                                         clamped_saturation(color_hsv[2]),
                                         color_hsv[3]>>)

\* the saturation of a stored colour
Saturation(color) == _bgr_to_hsv(color)[2]

\* the saturations a label's colours may have at position k of its list
SaturationsInRange(colors) ==
    \A k \in 2..Len(colors) :
        /\ Saturation(colors[k]) >= SATURATION_MINIMUM
        /\ Saturation(colors[k]) <= 255

\* from the third colour on: while the sum stays below 256 the saturation
\* grows by the step 19.5, cut to an integer
SaturationsStep(colors) ==
    \A k \in 3..Len(colors) :
        2 * Saturation(colors[k - 1]) + Step2 < 2 * 256 =>
            Saturation(colors[k]) - Saturation(colors[k - 1])
                \in {Step2 \div 2, Step2 \div 2 + 1}

\* C16: under hue_family, whatever the first colour of a label and however
\* many instances it has, the saturation of every second or later colour is
\* in [100, 255]; it grows from the previous one by the step until the sum
\* wraps, and the saturation computed from any previous saturation is never
\* below 100
C16_SaturationInRange ==
    /\ \A l \in DOMAIN class_instance_colors :
          /\ SaturationsInRange(class_instance_colors[l])
          /\ SaturationsStep(class_instance_colors[l])
    /\ \A sat \in 0..255 : /\ next_saturation(sat) >= SATURATION_MINIMUM
                            /\ next_saturation(sat) <= 255

\* a label has colours past the wrap, and another label starts from the
\* default colour, of saturation 0
C16_Witness ==
    /\ LaterOfLabel
    /\ \E l \in DOMAIN class_instance_colors :
          \E k \in 3..Len(class_instance_colors[l]) :
             Saturation(class_instance_colors[l][k])
                < Saturation(class_instance_colors[l][k - 1])
    /\ \E l \in DOMAIN class_instance_colors :
          /\ Len(class_instance_colors[l]) >= 2
          /\ Saturation(class_instance_colors[l][1]) = 0

\* C17: under hue_family two freshly constructed nodes given the same
\* lookups in the same order return the same colour at every lookup and hold
\* the same store after it, whatever randint returns in each
C17_ColorDeterminism ==
    /\ twin.colors = class_instance_colors
    /\ twin.counts = class_instance_counts
    /\ lookup.called => lookup.twin_color = lookup.color

\* a new colour is made in both nodes, whose random draws differ, for a
\* label that has colours, in a later frame than another label's
C17_Witness ==
    /\ LaterOfLabel
    /\ ~ lookup.same_draw
    /\ lookup.color = Last(twin.colors[lookup.label])
    /\ \E l \in DOMAIN class_instance_colors :
          /\ l # lookup.label
          /\ l \notin DOMAIN class_instance_counts
          /\ Len(twin.colors[l]) >= 2

-----------------------------------------------------------------------------
(* Properties of the accepted configurations *)

\* x is None, or of one of the types `types` and within [lower, upper]
\* (in tenths)
NullOr(x, types, lower, upper) ==
    \/ x = PyNone
    \/ /\ x.t \in types
       /\ lower <= (IF x.t = "float" THEN x.v ELSE 10 * x.v)
       /\ (IF x.t = "float" THEN x.v ELSE 10 * x.v) <= upper

\* the types of the values that are a float, an int (a Python bool is an
\* int), a bool
Floats == {"float"}
Ints == {"int", "bool"}
Bools == {"bool"}

\* C18: in every configuration accepted by construction each parameter that
\* is not None has its declared type and lies in its declared range:
\* contrast a float in [0, 3], brightness an int in [-100, 100],
\* gamma_correction a float >= 0, blur, mosaic and contours.thickness an
\* int >= 1, contours.show a bool
C18_AcceptedParamsInRange ==
    status = "ready" =>
        /\ NullOr(Get(config.effect, "contrast"), Floats, 0, 30)
        /\ NullOr(Get(config.effect, "brightness"), Ints, -1000, 1000)
        /\ NullOr(Get(config.effect, "gamma_correction"), Floats, 0, Inf)
        /\ NullOr(Get(config.effect, "blur"), Ints, 10, Inf)
        /\ NullOr(Get(config.effect, "mosaic"), Ints, 10, Inf)
        /\ NullOr(config.contours.thickness, Ints, 10, Inf)
        /\ NullOr(config.contours.show, Bools, 0, 10)

\* the entries of the effect mapping that are not None
NonNull(effect) == {i \in DOMAIN effect : effect[i].v # PyNone}

\* the value of an effect entry has its declared type and lies in its
\* declared range
EntryValid(e) ==
    CASE e.k = "standard_mask" -> e.v.t \in Bools
      [] e.k = "contrast" -> NullOr(e.v, Floats, 0, 30)
      [] e.k = "brightness" -> NullOr(e.v, Ints, -1000, 1000)
      [] e.k = "gamma_correction" -> NullOr(e.v, Floats, 0, Inf)
      [] e.k = "blur" -> NullOr(e.v, Ints, 10, Inf)
      [] e.k = "mosaic" -> NullOr(e.v, Ints, 10, Inf)
      [] OTHER -> FALSE

\* C22: construction accepts every configuration in which exactly one
\* effect entry is not None, the value of that entry has its declared type
\* and lies in its declared range, endpoints included, and the other options
\* are valid
C22_ValidSingleEffectAccepted ==
    (/\ status # "none"
     /\ Cardinality(NonNull(config.effect)) = 1
     /\ \A i \in NonNull(config.effect) : EntryValid(config.effect[i])
     /\ config.instance_color_scheme \in {"random", "hue_family"}
     /\ config.effect_area \in {"objects", "background"}
     /\ NullOr(config.contours.thickness, Ints, 10, Inf)
     /\ NullOr(config.contours.show, Bools, 0, 10)) => status = "ready"

\* an accepted configuration with parameters at their limits
C18_Witness ==
    /\ status = "ready"
    /\ Get(config.effect, "contrast") = PyFloat(0)
    /\ Get(config.effect, "brightness") = PyInt(100)
    /\ config.contours.thickness = PyInt(1)
    /\ config.contours.show = PyBool(TRUE)

-----------------------------------------------------------------------------
(* Properties of the arrays of a run *)

\* the names of the caller's arrays
CallerArrays == {"img", "masks", "bbox_labels", "bbox_scores"}

\* C19: a run never changes the caller's input data: after it the pixels of
\* inputs["img"] and the contents of masks, bbox_labels and bbox_scores are
\* what they were before the call, and the result is delivered only as the
\* single key img of the mapping returned
C19_InputsUntouched ==
    memory.called =>
        /\ \A name \in CallerArrays : memory.heap[name] = memory.before[name]
        /\ memory.status = "ok" =>
              /\ DOMAIN memory.outputs = {"img"}
              /\ result.status = "ok"
              /\ memory.heap[memory.outputs["img"]] = result.img

\* an effect run with contours on and an instance: the contours were
\* stroked in place on the array returned, which is not the caller's
C19_Witness ==
    /\ memory.called
    /\ memory.status = "ok"
    /\ calls # <<>>
    /\ calls[1].op = "_mask_apply_effect"
    /\ truthy(config.contours.show)
    /\ Len(memory.before.masks) >= 1
    /\ memory.outputs["img"] \notin CallerArrays
    /\ \E p \in Pixels : /\ memory.heap[memory.outputs["img"]][p] = CONTOUR_COLOR
                          /\ memory.heap.img[p] # CONTOUR_COLOR

-----------------------------------------------------------------------------
(* Properties of the CSV logger *)

\* C23: write appends a row if and only if the time elapsed since the last
\* appended row (since construction, for the first) is at least
\* logging_interval seconds, after a gap of any size; a call made earlier
\* writes nothing and leaves last_write unchanged; two consecutive rows are
\* at least logging_interval seconds apart
C23_WriteIffIntervalElapsed ==
    (logger.open /\ logger.writes > 0) =>
        /\ logger.wrote <=> logger.now - logger.since >= logger.logging_interval
        /\ ~ logger.wrote => logger.last_write = logger.since
        /\ logger.wrote => /\ logger.last_write = logger.now
                           /\ Last(logger.rows) = logger.now
        /\ \A k \in 2 .. Len(logger.rows) :
              logger.rows[k] - logger.rows[k - 1] >= logger.logging_interval

=============================================================================
